---- MODULE Spec2Model ----
(***************************************************************************)
(* Food Donation Management System (src/app.py, src/load_csv_to_db.py).    *)
(*                                                                         *)
(* The state is the SQLite database (four tables), the Streamlit session   *)
(* state and the clock.  Every action is one script run of app.py that a   *)
(* button click triggers: the run re-reads the database from the top, so   *)
(* the widgets' options are those of the state the handler acts on, and    *)
(* the statement it issues is committed before the run ends                *)
(* (execute_insert_update_delete).  One session drives the application.    *)
(*                                                                         *)
(* A table is the set of its rows; a row is a record whose fields are the  *)
(* columns of the CREATE TABLE statement.  Dates are stored as the text    *)
(* strftime produces and compared as text, as SQLite compares them.        *)
(***************************************************************************)
EXTENDS Integers, Sequences, FiniteSets

VARIABLES
    providers,       \* table providers
    receivers,       \* table receivers
    food_listings,   \* table food_listings
    claims,          \* table claims
    claim_food_id,   \* st.session_state['claim_food_id']: {} when the key is absent, {id} otherwise
    now,             \* the clock (datetime.now(), DATE('now')), in days
    message          \* the last report made: "success" (st.success), "error" (st.error), "" before any

vars == <<providers, receivers, food_listings, claims, claim_food_id, now, message>>

\* the database
tables == <<providers, receivers, food_listings, claims>>

----------------------------------------------------------------------------
(* Bounds of the model *)

MaxProviderId == 2
MaxReceiverId == 1
MaxFoodId == 2
MaxClaimId == 2
MaxTicks == 1
\* the day the clock starts at
Today0 == 7

(* Program constants *)

\* DATE('now', '+3 days')
ExpiryWindow == 3

StatusOptions == {"Pending", "Completed", "Cancelled"}
StatusFilterOptions == {"All"} \cup StatusOptions

----------------------------------------------------------------------------
(* Dates and text *)

\* strftime('%Y-%m-%d') within one month: the zero-padded day, as its digits
strftime(d) == <<d \div 10, d % 10>>

\* SQLite's comparison of two TEXT values (memcmp, the shorter a prefix first)
RECURSIVE TextLess(_, _)
TextLess(a, b) ==
    IF b = <<>> THEN FALSE
    ELSE IF a = <<>> THEN TRUE
    ELSE IF Head(a) # Head(b) THEN Head(a) < Head(b)
    ELSE TextLess(Tail(a), Tail(b))

TextLeq(a, b) == a = b \/ TextLess(a, b)

\* SQL NULL, as a TEXT value
NullText == <<>>

\* SQLite's DATE(text): a well-formed date text is returned as it is, any
\* other text gives NULL
DATE(t) == IF Len(t) = 2 THEN t ELSE NullText

\* SQLite's DATE('now', '+N days')
DateNowPlus(n) == strftime(now + n)

\* a <= b in a WHERE clause: NULL on either side does not select the row
SqlLeq(a, b) == a # NullText /\ b # NullText /\ TextLeq(a, b)

----------------------------------------------------------------------------
(* Storage *)

ProviderIds == {p.Provider_ID : p \in providers}
ReceiverIds == {r.Receiver_ID : r \in receivers}
FoodIds == {fl.Food_ID : fl \in food_listings}
ClaimIds == {c.Claim_ID : c \in claims}

Max(S) == CHOOSE x \in S : \A y \in S : y <= x

\* INTEGER PRIMARY KEY without AUTOINCREMENT: an INSERT that names no id gets
\* the largest rowid of the table plus one, 1 for an empty table
NextRowId(ids) == IF ids = {} THEN 1 ELSE Max(ids) + 1

\* the sum of f over the finite set S of rows
RECURSIVE SumQuantity(_)
SumQuantity(S) ==
    IF S = {} THEN 0
    ELSE LET r == CHOOSE x \in S : TRUE
         IN  r.Quantity + SumQuantity(S \ {r})

\* the sequences that list every row of S once
Orderings(S) ==
    LET n == Cardinality(S)
    IN  {f \in [1..n -> S] : \A i, j \in 1..n : i # j => f[i] # f[j]}

Init ==
    /\ providers = {}
    /\ receivers = {}
    /\ food_listings = {}
    /\ claims = {}
    /\ claim_food_id = {}
    /\ now = Today0
    /\ message = ""

----------------------------------------------------------------------------
(* Queries *)

\* Food Listings page: the filter selectboxes offer "All" and the distinct
\* values of the column
LocationOptions == {"All"} \cup {fl.Location : fl \in food_listings}
FoodTypeOptions == {"All"} \cup {fl.Food_Type : fl \in food_listings}
MealTypeOptions == {"All"} \cup {fl.Meal_Type : fl \in food_listings}

\* one row of food_listings fl JOIN providers p
FoodListingRow(fl, p) ==
    [Food_ID |-> fl.Food_ID, Food_Name |-> fl.Food_Name, Quantity |-> fl.Quantity,
     Expiry_Date |-> fl.Expiry_Date, Provider_ID |-> fl.Provider_ID,
     Provider_Type |-> fl.Provider_Type, Location |-> fl.Location,
     Food_Type |-> fl.Food_Type, Meal_Type |-> fl.Meal_Type,
     Provider_Name |-> p.Name, Provider_Contact |-> p.Contact]

\* the rows the food-listing query selects: the join and the WHERE clause the
\* three filters build
FoodListingsRows(city_filter, food_type_filter, meal_type_filter) ==
    {FoodListingRow(fl, p) : <<fl, p>> \in
        {<<fl, p>> \in food_listings \X providers :
            /\ fl.Provider_ID = p.Provider_ID
            /\ (city_filter # "All" => fl.Location = city_filter)
            /\ (food_type_filter # "All" => fl.Food_Type = food_type_filter)
            /\ (meal_type_filter # "All" => fl.Meal_Type = meal_type_filter)}}

\* FoodListingsQuery without its ORDER BY clause: the rows in any order
FoodListingsQueryUnordered(city_filter, food_type_filter, meal_type_filter) ==
    Orderings(FoodListingsRows(city_filter, food_type_filter, meal_type_filter))

\* ORDER BY fl.Expiry_Date: the results the query may return, rows of equal
\* expiry text in any order
FoodListingsQuery(city_filter, food_type_filter, meal_type_filter) ==
    {res \in Orderings(FoodListingsRows(city_filter, food_type_filter, meal_type_filter)) :
        \A i, j \in 1..Len(res) :
            i < j => TextLeq(res[i].Expiry_Date, res[j].Expiry_Date)}

\* one row of claims c JOIN food_listings fl JOIN receivers r JOIN providers p
ClaimRow(c, fl, r, p) ==
    [Claim_ID |-> c.Claim_ID, Status |-> c.Status, Timestamp |-> c.Timestamp,
     Food_Name |-> fl.Food_Name, Quantity |-> fl.Quantity, Food_Type |-> fl.Food_Type,
     Receiver_Name |-> r.Name, Receiver_Type |-> r.Type, Provider_Name |-> p.Name]

\* claims_query without its JOIN providers
ClaimsRowsWithoutProviderJoin ==
    {ClaimRow(q[1], q[2], q[3], [Name |-> ""]) : q \in
        {q \in claims \X food_listings \X receivers :
            /\ q[1].Food_ID = q[2].Food_ID
            /\ q[1].Receiver_ID = q[3].Receiver_ID}}

\* the rows of claims_query
ClaimsRows ==
    {ClaimRow(q[1], q[2], q[3], q[4]) : q \in
        {q \in claims \X food_listings \X receivers \X providers :
            /\ q[1].Food_ID = q[2].Food_ID
            /\ q[1].Receiver_ID = q[3].Receiver_ID
            /\ q[2].Provider_ID = q[4].Provider_ID}}

\* claims[claims['Status'] == status_filter], the whole frame for "All"
FilteredClaims(status_filter) ==
    IF status_filter # "All"
    THEN {row \in ClaimsRows : row.Status = status_filter}
    ELSE ClaimsRows

\* ORDER BY c.Timestamp DESC: the frames the page may show under a filter
ClaimsView(status_filter) ==
    {res \in Orderings(FilteredClaims(status_filter)) :
        \A i, j \in 1..Len(res) :
            i < j => TextLeq(res[j].Timestamp, res[i].Timestamp)}

----------------------------------------------------------------------------
(* Food Listings page *)

\* the "Claim This Food" button of a listed row
ClaimThisFood(city_filter, food_type_filter, meal_type_filter, food_id) ==
    /\ city_filter \in LocationOptions
    /\ food_type_filter \in FoodTypeOptions
    /\ meal_type_filter \in MealTypeOptions
    /\ \E res \in FoodListingsQuery(city_filter, food_type_filter, meal_type_filter) :
          \E i \in 1..Len(res) : res[i].Food_ID = food_id
    /\ claim_food_id' = {food_id}
    /\ UNCHANGED <<providers, receivers, food_listings, claims, now, message>>

----------------------------------------------------------------------------
(* Claims Management page *)

\* INSERT INTO claims (Food_ID, Receiver_ID, Status, Timestamp) VALUES (?, ?, 'Pending', ?)
InsertClaim(food_id, receiver_id, timestamp) ==
    claims \cup {[Claim_ID |-> NextRowId(ClaimIds), Food_ID |-> food_id,
                  Receiver_ID |-> receiver_id, Status |-> "Pending",
                  Timestamp |-> timestamp]}

\* SubmitClaim without the lookup of the session's listing
SubmitClaimUnchecked(receiver_id) ==
    /\ claim_food_id # {}
    /\ \E food_id \in claim_food_id :
          /\ receivers # {}
          /\ receiver_id \in ReceiverIds
          /\ claims' = InsertClaim(food_id, receiver_id, strftime(now))
    /\ claim_food_id' = {}
    /\ message' = "success"
    /\ UNCHANGED <<providers, receivers, food_listings, now>>

\* SubmitClaim that also takes one unit off the claimed listing
SubmitClaimConsumesQuantity(receiver_id) ==
    /\ claim_food_id # {}
    /\ \E food_id \in claim_food_id :
          /\ \E fl \in food_listings : fl.Food_ID = food_id
          /\ receivers # {}
          /\ receiver_id \in ReceiverIds
          /\ claims' = InsertClaim(food_id, receiver_id, strftime(now))
          /\ food_listings' = {IF fl.Food_ID = food_id
                               THEN [fl EXCEPT !.Quantity = fl.Quantity - 1]
                               ELSE fl : fl \in food_listings}
    /\ claim_food_id' = {}
    /\ message' = "success"
    /\ UNCHANGED <<providers, receivers, now>>

\* the "Submit Claim" button: shown when the session's listing and a receiver
\* are found
SubmitClaim(receiver_id) ==
    /\ claim_food_id # {}
    /\ \E food_id \in claim_food_id :
          /\ \E fl \in food_listings : fl.Food_ID = food_id
          /\ receivers # {}
          /\ receiver_id \in ReceiverIds
          /\ claims' = InsertClaim(food_id, receiver_id, strftime(now))
    /\ claim_food_id' = {}
    /\ message' = "success"
    /\ UNCHANGED <<providers, receivers, food_listings, now>>

\* the "Cancel Claim" button
CancelClaim ==
    /\ claim_food_id # {}
    /\ claim_food_id' = {}
    /\ UNCHANGED <<providers, receivers, food_listings, claims, now, message>>

\* UpdateClaimStatus without its WHERE clause
UpdateClaimStatusAllRows(new_status, claim_id) ==
    {[c EXCEPT !.Status = new_status] : c \in claims}

\* UpdateClaimStatus that leaves a Completed or Cancelled claim as it is
UpdateClaimStatusPendingOnly(new_status, claim_id) ==
    {IF c.Claim_ID = claim_id /\ c.Status = "Pending"
     THEN [c EXCEPT !.Status = new_status] ELSE c : c \in claims}

\* UPDATE claims SET Status = ? WHERE Claim_ID = ?
UpdateClaimStatus(new_status, claim_id) ==
    {IF c.Claim_ID = claim_id THEN [c EXCEPT !.Status = new_status] ELSE c : c \in claims}

\* UpdateStatus that takes whatever status it is asked for
UpdateStatusAnyValue(status_filter, selected_claim, new_status) ==
    /\ ClaimsRows # {}
    /\ status_filter \in StatusFilterOptions
    /\ selected_claim \in {row.Claim_ID : row \in FilteredClaims(status_filter)}
    /\ claims' = {IF c.Claim_ID = selected_claim THEN [c EXCEPT !.Status = new_status] ELSE c :
                    c \in claims}
    /\ message' = "success"
    /\ UNCHANGED <<providers, receivers, food_listings, claim_food_id, now>>

\* the "Update Status" button with a claim of the filtered frame selected
UpdateStatus(status_filter, selected_claim, new_status) ==
    /\ ClaimsRows # {}
    /\ status_filter \in StatusFilterOptions
    /\ selected_claim \in {row.Claim_ID : row \in FilteredClaims(status_filter)}
    /\ new_status \in StatusOptions
    /\ claims' = UpdateClaimStatus(new_status, selected_claim)
    /\ message' = "success"
    /\ UNCHANGED <<providers, receivers, food_listings, claim_food_id, now>>

\* UpdateStatusNoSelection that reports an error when no row was updated
UpdateStatusNoSelectionNotFound(status_filter, new_status) ==
    /\ ClaimsRows # {}
    /\ status_filter \in StatusFilterOptions
    /\ FilteredClaims(status_filter) = {}
    /\ new_status \in StatusOptions
    /\ message' = "error"
    /\ UNCHANGED <<providers, receivers, food_listings, claims, claim_food_id, now>>

\* the "Update Status" button when the filtered frame is empty: the selectbox
\* has no option and returns None, and Claim_ID = NULL matches no row
UpdateStatusNoSelection(status_filter, new_status) ==
    /\ ClaimsRows # {}
    /\ status_filter \in StatusFilterOptions
    /\ FilteredClaims(status_filter) = {}
    /\ new_status \in StatusOptions
    /\ message' = "success"
    /\ UNCHANGED <<providers, receivers, food_listings, claims, claim_food_id, now>>

----------------------------------------------------------------------------
(* CRUD Operations page *)

\* "Add Provider": all([name, type_val, address, city, contact]), then the INSERT
CreateProvider(name, type_val, address, city, contact) ==
    /\ IF name # "" /\ type_val # "" /\ address # "" /\ city # "" /\ contact # ""
       THEN message' = "success" /\ providers' = providers \cup
                {[Provider_ID |-> NextRowId(ProviderIds), Name |-> name, Type |-> type_val,
                  Address |-> address, City |-> city, Contact |-> contact]}
       ELSE providers' = providers /\ message' = "error"
    /\ UNCHANGED <<receivers, food_listings, claims, claim_food_id, now>>

\* "Add Receiver": all([name, type_val, city, contact]), then the INSERT
CreateReceiver(name, type_val, city, contact) ==
    /\ IF name # "" /\ type_val # "" /\ city # "" /\ contact # ""
       THEN message' = "success" /\ receivers' = receivers \cup
                {[Receiver_ID |-> NextRowId(ReceiverIds), Name |-> name, Type |-> type_val,
                  City |-> city, Contact |-> contact]}
       ELSE receivers' = receivers /\ message' = "error"
    /\ UNCHANGED <<providers, food_listings, claims, claim_food_id, now>>

\* SELECT Type FROM providers WHERE Provider_ID = ?, first row
ProviderTypeOf(provider_id) ==
    (CHOOSE p \in providers : p.Provider_ID = provider_id).Type

\* CreateFoodListing that does not look at the location field
CreateFoodListingIgnoresLocation(food_name, quantity, expiry_date, provider_id, location, food_type, meal_type) ==
    /\ providers # {}
    /\ provider_id \in ProviderIds
    /\ quantity >= 1
    /\ IF food_name # "" /\ quantity # 0
       THEN message' = "success" /\ food_listings' = food_listings \cup
                {[Food_ID |-> NextRowId(FoodIds), Food_Name |-> food_name,
                  Quantity |-> quantity, Expiry_Date |-> strftime(expiry_date),
                  Provider_ID |-> provider_id, Provider_Type |-> ProviderTypeOf(provider_id),
                  Location |-> location, Food_Type |-> food_type, Meal_Type |-> meal_type]}
       ELSE food_listings' = food_listings /\ message' = "error"
    /\ UNCHANGED <<providers, receivers, claims, claim_food_id, now>>

\* "Add Food Listing": the form is shown when a provider exists;
\* all([food_name, quantity, expiry_date, location]), then the INSERT
CreateFoodListing(food_name, quantity, expiry_date, provider_id, location, food_type, meal_type) ==
    /\ providers # {}
    /\ provider_id \in ProviderIds
    /\ quantity >= 1
    /\ IF food_name # "" /\ quantity # 0 /\ location # ""
       THEN message' = "success" /\ food_listings' = food_listings \cup
                {[Food_ID |-> NextRowId(FoodIds), Food_Name |-> food_name,
                  Quantity |-> quantity, Expiry_Date |-> strftime(expiry_date),
                  Provider_ID |-> provider_id, Provider_Type |-> ProviderTypeOf(provider_id),
                  Location |-> location, Food_Type |-> food_type, Meal_Type |-> meal_type]}
       ELSE food_listings' = food_listings /\ message' = "error"
    /\ UNCHANGED <<providers, receivers, claims, claim_food_id, now>>

\* UPDATE providers SET Name=?, Type=?, Address=?, City=?, Contact=? WHERE Provider_ID=?
UpdateProviderRow(record_id, name, type_val, address, city, contact) ==
    {IF p.Provider_ID = record_id
     THEN [Provider_ID |-> record_id, Name |-> name, Type |-> type_val,
           Address |-> address, City |-> city, Contact |-> contact]
     ELSE p : p \in providers}

\* DELETE FROM providers WHERE Provider_ID = ?
DeleteFromProviders(record_id) == {p \in providers : p.Provider_ID # record_id}

\* DELETE FROM receivers WHERE Receiver_ID = ?
DeleteFromReceivers(record_id) == {r \in receivers : r.Receiver_ID # record_id}

\* DELETE FROM food_listings WHERE Food_ID = ?
DeleteFromFoodListings(record_id) == {fl \in food_listings : fl.Food_ID # record_id}

\* DELETE FROM claims WHERE Claim_ID = ?
DeleteFromClaims(record_id) == {c \in claims : c.Claim_ID # record_id}

\* UpdateProvider that also rewrites Provider_Type in the provider's listings
UpdateProviderResync(record_id, name, type_val, address, city, contact) ==
    /\ providers # {}
    /\ record_id \in ProviderIds
    /\ providers' = {IF p.Provider_ID = record_id
                     THEN [Provider_ID |-> record_id, Name |-> name, Type |-> type_val,
                           Address |-> address, City |-> city, Contact |-> contact]
                     ELSE p : p \in providers}
    /\ food_listings' = {IF fl.Provider_ID = record_id
                         THEN [fl EXCEPT !.Provider_Type = type_val]
                         ELSE fl : fl \in food_listings}
    /\ message' = "success"
    /\ UNCHANGED <<receivers, claims, claim_food_id, now>>

\* "Read": SELECT * FROM providers ORDER BY 1
ReadProviders ==
    CHOOSE res \in Orderings(providers) :
        \A i, j \in 1..Len(res) : i < j => res[i].Provider_ID < res[j].Provider_ID

\* "Read": SELECT * FROM receivers ORDER BY 1
ReadReceivers ==
    CHOOSE res \in Orderings(receivers) :
        \A i, j \in 1..Len(res) : i < j => res[i].Receiver_ID < res[j].Receiver_ID

\* "Read": SELECT * FROM food_listings ORDER BY 1
ReadFoodListings ==
    CHOOSE res \in Orderings(food_listings) :
        \A i, j \in 1..Len(res) : i < j => res[i].Food_ID < res[j].Food_ID

\* "Read": SELECT * FROM claims ORDER BY 1
ReadClaims ==
    CHOOSE res \in Orderings(claims) :
        \A i, j \in 1..Len(res) : i < j => res[i].Claim_ID < res[j].Claim_ID

\* "Update Provider": UPDATE providers SET ... WHERE Provider_ID = ?
\* (the page has an update form for no other table)
UpdateProvider(record_id, name, type_val, address, city, contact) ==
    /\ providers # {}
    /\ record_id \in ProviderIds
    /\ providers' = UpdateProviderRow(record_id, name, type_val, address, city, contact)
    /\ message' = "success"
    /\ UNCHANGED <<receivers, food_listings, claims, claim_food_id, now>>

\* DeleteProvider that also deletes the provider's listings
DeleteProviderCascade(record_id) ==
    /\ providers # {}
    /\ record_id \in ProviderIds
    /\ providers' = {p \in providers : p.Provider_ID # record_id}
    /\ food_listings' = {fl \in food_listings : fl.Provider_ID # record_id}
    /\ message' = "success"
    /\ UNCHANGED <<receivers, claims, claim_food_id, now>>

\* "Delete" with table = providers: DELETE FROM providers WHERE Provider_ID = ?
DeleteProvider(record_id) ==
    /\ providers # {}
    /\ record_id \in ProviderIds
    /\ providers' = DeleteFromProviders(record_id)
    /\ message' = "success"
    /\ UNCHANGED <<receivers, food_listings, claims, claim_food_id, now>>

\* "Delete" with table = receivers
DeleteReceiver(record_id) ==
    /\ receivers # {}
    /\ record_id \in ReceiverIds
    /\ receivers' = DeleteFromReceivers(record_id)
    /\ message' = "success"
    /\ UNCHANGED <<providers, food_listings, claims, claim_food_id, now>>

\* "Delete" with table = food_listings
DeleteFoodListing(record_id) ==
    /\ food_listings # {}
    /\ record_id \in FoodIds
    /\ food_listings' = DeleteFromFoodListings(record_id)
    /\ message' = "success"
    /\ UNCHANGED <<providers, receivers, claims, claim_food_id, now>>

\* "Delete" with table = claims
DeleteClaim(record_id) ==
    /\ claims # {}
    /\ record_id \in ClaimIds
    /\ claims' = DeleteFromClaims(record_id)
    /\ message' = "success"
    /\ UNCHANGED <<providers, receivers, food_listings, claim_food_id, now>>

----------------------------------------------------------------------------
(* The clock *)

Tick ==
    /\ now' = now + 1
    /\ UNCHANGED <<providers, receivers, food_listings, claims, claim_food_id, message>>

----------------------------------------------------------------------------
(* Analytics page *)

\* SELECT SUM(Quantity) FROM food_listings; NULL (no row) is read as 0
TotalFood == SumQuantity(food_listings)

\* SELECT SUM(fl.Quantity) FROM food_listings fl JOIN claims c
\* ON fl.Food_ID = c.Food_ID WHERE c.Status = 'Completed'; NULL is read as 0
ClaimedFood ==
    SumQuantity({[Claim_ID |-> q[2].Claim_ID, Food_ID |-> q[1].Food_ID,
                  Quantity |-> q[1].Quantity] : q \in
        {q \in food_listings \X claims :
            q[1].Food_ID = q[2].Food_ID /\ q[2].Status = "Completed"}})

\* a / b * 100 as the fraction it is; a denominator of 0 is a division by zero
Percent(a, b) == [num |-> a * 100, den |-> b]

\* the number 0
Zero == [num |-> 0, den |-> 1]

\* WastePrevented without the total_val > 0 guard
WastePreventedUnguarded == Percent(ClaimedFood, TotalFood)

\* waste_prevented = (claimed_val / total_val * 100) if total_val > 0 else 0
WastePrevented ==
    IF TotalFood > 0 THEN Percent(ClaimedFood, TotalFood) ELSE Zero

\* SELECT COUNT(*) FROM food_listings
\* WHERE DATE(Expiry_Date) <= DATE('now', '+3 days')
ExpiringSoon ==
    Cardinality({fl \in food_listings :
        SqlLeq(DATE(fl.Expiry_Date), DateNowPlus(ExpiryWindow))})

\* LIMIT 10
TopProvidersLimit == 10

\* providers p LEFT JOIN food_listings fl LEFT JOIN claims c, the rows of one
\* provider; a column of the missing side is NULL, written <<>>, a value v <<v>>
TopProvidersJoin(p) ==
    LET own == {fl \in food_listings : fl.Provider_ID = p.Provider_ID}
        claimed == {q \in own \X claims : q[1].Food_ID = q[2].Food_ID}
        unclaimed == {fl \in own : \A c \in claims : c.Food_ID # fl.Food_ID}
    IN  IF own = {}
        THEN {[Food_ID |-> <<>>, Quantity |-> <<>>, Claim_ID |-> <<>>]}
        ELSE {[Food_ID |-> <<q[1].Food_ID>>, Quantity |-> <<q[1].Quantity>>,
               Claim_ID |-> <<q[2].Claim_ID>>] : q \in claimed}
             \cup {[Food_ID |-> <<fl.Food_ID>>, Quantity |-> <<fl.Quantity>>,
                    Claim_ID |-> <<>>] : fl \in unclaimed}

\* SUM(fl.Quantity) over joined rows: NULL when no row has a Quantity
RECURSIVE SqlSumQuantity(_)
SqlSumQuantity(rows) ==
    IF rows = {} THEN <<>>
    ELSE LET r == CHOOSE x \in rows : TRUE
             rest == SqlSumQuantity(rows \ {r})
         IN  IF r.Quantity = <<>> THEN rest
             ELSE IF rest = <<>> THEN r.Quantity
             ELSE <<r.Quantity[1] + rest[1]>>

\* the row of one provider: GROUP BY p.Provider_ID, p.Name, p.Type
TopProviderRow(p) ==
    [Name |-> p.Name, Type |-> p.Type,
     Total_Listings |-> Cardinality({r \in TopProvidersJoin(p) : r.Food_ID # <<>>}),
     Total_Quantity |-> SqlSumQuantity(TopProvidersJoin(p)),
     Total_Claims |-> Cardinality({r \in TopProvidersJoin(p) : r.Claim_ID # <<>>})]

\* a comes no later than b under ORDER BY ... DESC: NULL is the smallest value
SqlDescLeq(a, b) == b = <<>> \/ (a # <<>> /\ a[1] >= b[1])

\* the providers of the report in the orders it may list them:
\* ORDER BY Total_Quantity DESC LIMIT 10
TopProvidersOrder ==
    {SubSeq(o, 1, IF Len(o) < TopProvidersLimit THEN Len(o) ELSE TopProvidersLimit) :
        o \in {o \in Orderings(providers) :
            \A i, j \in 1..Len(o) :
                i < j => SqlDescLeq(TopProviderRow(o[i]).Total_Quantity,
                                    TopProviderRow(o[j]).Total_Quantity)}}

\* the frames the Top Performing Providers report may show
TopProviders ==
    {[i \in 1..Len(o) |-> TopProviderRow(o[i])] : o \in TopProvidersOrder}

----------------------------------------------------------------------------
(* Inputs *)

\* what is typed into a text field: nothing, or some text
TextInputs == {"", "x"}
ProviderTypeInputs == {"Bakery"}
ReceiverTypeInputs == {"NGO"}
QuantityInputs == {1, 2}
FoodTypeInputs == {"Vegetarian"}
MealTypeInputs == {"Lunch"}
ExpiryInputs == {Today0 + 1}
\* what a caller may ask the status selectbox for
StatusInputs == StatusOptions \cup {"Expired"}

Next ==
    \/ \E cf \in LocationOptions, ff \in FoodTypeOptions, mf \in MealTypeOptions,
          id \in 1..MaxFoodId : ClaimThisFood(cf, ff, mf, id)
    \/ \E r \in 1..MaxReceiverId :
          NextRowId(ClaimIds) <= MaxClaimId /\ SubmitClaim(r)
    \/ CancelClaim
    \/ \E sf \in StatusFilterOptions, id \in 1..MaxClaimId, s \in StatusInputs :
          UpdateStatus(sf, id, s)
    \/ \E sf \in StatusFilterOptions, s \in StatusOptions : UpdateStatusNoSelection(sf, s)
    \/ \E n, a, c, k \in TextInputs, t \in ProviderTypeInputs :
          NextRowId(ProviderIds) <= MaxProviderId /\ CreateProvider(n, t, a, c, k)
    \/ \E n, c, k \in TextInputs, t \in ReceiverTypeInputs :
          NextRowId(ReceiverIds) <= MaxReceiverId /\ CreateReceiver(n, t, c, k)
    \/ \E n, l \in TextInputs, q \in QuantityInputs, e \in ExpiryInputs,
          p \in 1..MaxProviderId, ft \in FoodTypeInputs, mt \in MealTypeInputs :
          NextRowId(FoodIds) <= MaxFoodId /\ CreateFoodListing(n, q, e, p, l, ft, mt)
    \/ \E id \in 1..MaxProviderId, n, a, c, k \in TextInputs \ {""}, t \in ProviderTypeInputs :
          UpdateProvider(id, n, t, a, c, k)
    \/ \E id \in 1..MaxProviderId : DeleteProvider(id)
    \/ \E id \in 1..MaxReceiverId : DeleteReceiver(id)
    \/ \E id \in 1..MaxFoodId : DeleteFoodListing(id)
    \/ \E id \in 1..MaxClaimId : DeleteClaim(id)
    \/ now < Today0 + MaxTicks /\ Tick

Spec == Init /\ [][Next]_vars

----------------------------------------------------------------------------
(* The food listings alone: every filter column and the expiry date vary *)

MaxListingProviderId == 1

LocationInputs == {"", "X", "Y"}
WideFoodTypeInputs == {"Vegetarian", "Vegan"}
WideMealTypeInputs == {"Breakfast", "Lunch"}
WideExpiryInputs == {Today0 - 1, Today0, Today0 + ExpiryWindow, Today0 + ExpiryWindow + 1}

NextListings ==
    \/ \E cf \in LocationOptions, ff \in FoodTypeOptions, mf \in MealTypeOptions,
          id \in 1..MaxFoodId : ClaimThisFood(cf, ff, mf, id)
    \/ CancelClaim
    \/ \E n, a, c, k \in TextInputs, t \in ProviderTypeInputs :
          NextRowId(ProviderIds) <= MaxListingProviderId /\ CreateProvider(n, t, a, c, k)
    \/ \E n \in TextInputs, l \in LocationInputs, e \in WideExpiryInputs,
          p \in 1..MaxListingProviderId, ft \in WideFoodTypeInputs, mt \in WideMealTypeInputs :
          NextRowId(FoodIds) <= MaxFoodId /\ CreateFoodListing(n, 1, e, p, l, ft, mt)
    \/ \E id \in 1..MaxListingProviderId : DeleteProvider(id)
    \/ \E id \in 1..MaxFoodId : DeleteFoodListing(id)
    \/ now < Today0 + MaxTicks /\ Tick

SpecListings == Init /\ [][NextListings]_vars

----------------------------------------------------------------------------
(* The CRUD page alone: the provider's type and name vary *)

WideProviderTypeInputs == {"Bakery", "Restaurant"}

NextProviders ==
    \/ \E n, a, c, k \in TextInputs, t \in WideProviderTypeInputs :
          NextRowId(ProviderIds) <= MaxProviderId /\ CreateProvider(n, t, a, c, k)
    \/ \E n, c, k \in TextInputs, t \in ReceiverTypeInputs :
          NextRowId(ReceiverIds) <= MaxReceiverId /\ CreateReceiver(n, t, c, k)
    \/ \E n, l \in TextInputs, q \in QuantityInputs, e \in ExpiryInputs,
          p \in 1..MaxProviderId, ft \in FoodTypeInputs, mt \in MealTypeInputs :
          NextRowId(FoodIds) <= MaxFoodId /\ CreateFoodListing(n, q, e, p, l, ft, mt)
    \/ \E id \in 1..MaxProviderId, n \in TextInputs, t \in WideProviderTypeInputs :
          UpdateProvider(id, n, t, "x", "x", "x")
    \/ \E id \in 1..MaxProviderId : DeleteProvider(id)
    \/ \E id \in 1..MaxReceiverId : DeleteReceiver(id)
    \/ \E id \in 1..MaxFoodId : DeleteFoodListing(id)

SpecProviders == Init /\ [][NextProviders]_vars

----------------------------------------------------------------------------
(* Properties *)

\* the day a stored date text stands for
DayOf(t) == IF Len(t) = 2 THEN 10 * t[1] + t[2] ELSE t[1]

\* the claims a step inserts
InsertedClaims == {c \in claims' : c.Claim_ID \notin ClaimIds}

\* the ids of the claims whose Status a step changes
StatusChanged ==
    {c.Claim_ID : c \in {c \in claims :
        \E d \in claims' : d.Claim_ID = c.Claim_ID /\ d.Status # c.Status}}

\* the claim's listing, that listing's provider and the claim's receiver exist
Resolves(c) ==
    /\ c.Receiver_ID \in ReceiverIds
    /\ \E fl \in food_listings : fl.Food_ID = c.Food_ID /\ fl.Provider_ID \in ProviderIds

\* every frame the Claims page may show under the filter lists the claim
Listed(claim_id, status_filter) ==
    \A res \in ClaimsView(status_filter) :
        \E i \in 1..Len(res) : res[i].Claim_ID = claim_id

\* no frame the Claims page may show under the filter lists the claim
NotListed(claim_id, status_filter) ==
    \A res \in ClaimsView(status_filter) :
        \A i \in 1..Len(res) : res[i].Claim_ID # claim_id

\* C1: a step inserts a claim only as Submit Claim does: exactly one new row,
\* Pending, for the listing the session holds and a receiver, both of which are
\* rows of their tables when the row is inserted; while the session's listing
\* is missing no step inserts a claim.
C1_SubmitInsertsOnePendingClaimOfExistingRows ==
    [][/\ InsertedClaims # {} =>
            /\ Cardinality(InsertedClaims) = 1
            /\ claims' = claims \cup InsertedClaims
            /\ \A c \in InsertedClaims :
                  /\ c.Status = "Pending"
                  /\ claim_food_id = {c.Food_ID}
                  /\ c.Food_ID \in FoodIds /\ c.Food_ID \in FoodIds'
                  /\ c.Receiver_ID \in ReceiverIds /\ c.Receiver_ID \in ReceiverIds'
       /\ claim_food_id \cap FoodIds = {} => InsertedClaims = {}]_vars

\* a claim was submitted, and the session now holds a listing that was deleted
\* after it was picked
C1_Witness ==
    /\ \E c \in claims : c.Status = "Pending" /\ Resolves(c)
    /\ claim_food_id # {}
    /\ claim_food_id \cap FoodIds = {}

\* C2: every stored claim's status is Pending, Completed or Cancelled; the
\* status update asked for another value ("Expired") persists nothing.
C2_StatusValid == \A c \in claims : c.Status \in {"Pending", "Completed", "Cancelled"}

\* one claim was moved to Completed and another to Cancelled
C2_Witness ==
    \E c, d \in claims : c.Status = "Completed" /\ d.Status = "Cancelled"

\* C3: a claim whose listing, provider and receiver exist is listed under the
\* status filter S exactly when its status is S, and can be moved to any
\* status from any status; after a step that changes its status to S' it is
\* listed under S' and under no other status filter.
C3_ListedUnderItsStatusOnly ==
    /\ [](\A c \in claims : Resolves(c) =>
            \A S \in StatusOptions :
                /\ c.Status = S => Listed(c.Claim_ID, S)
                /\ c.Status # S => NotListed(c.Claim_ID, S)
                /\ ENABLED (/\ UpdateStatus("All", c.Claim_ID, S)
                            /\ \A d \in claims' : d.Claim_ID = c.Claim_ID => d.Status = S))
    /\ [][\A d \in claims' : d.Claim_ID \in StatusChanged =>
            \A S \in StatusOptions :
                IF S = d.Status THEN Listed(d.Claim_ID, S)' ELSE NotListed(d.Claim_ID, S)']_vars

\* a claim is listed under Completed beside one listed under Pending
C3_Witness ==
    \E c, d \in claims :
        /\ Resolves(c) /\ c.Status = "Completed" /\ Listed(c.Claim_ID, "Completed")
        /\ Resolves(d) /\ d.Status = "Pending" /\ Listed(d.Claim_ID, "Pending")

\* C4: no step changes the Food_ID, Receiver_ID or Timestamp of a claim that
\* stays in the table, and a step that changes a claim's Status changes the
\* Status of that one claim only, keeps the set of claims and leaves the
\* other three tables as they are.
C4_OnlyStatusOfOneClaimChanges ==
    [][/\ \A c \in claims, d \in claims' :
            c.Claim_ID = d.Claim_ID =>
                /\ d.Food_ID = c.Food_ID
                /\ d.Receiver_ID = c.Receiver_ID
                /\ d.Timestamp = c.Timestamp
       /\ StatusChanged # {} =>
            /\ Cardinality(StatusChanged) = 1
            /\ ClaimIds' = ClaimIds
            /\ providers' = providers
            /\ receivers' = receivers
            /\ food_listings' = food_listings]_vars

\* two claims made on different days, one of them moved out of Pending
C4_Witness ==
    \E c, d \in claims :
        /\ c.Timestamp # d.Timestamp
        /\ c.Status = "Pending"
        /\ d.Status # "Pending"

\* C5: a step that inserts a claim or changes a claim's status leaves
\* food_listings, and so every listing's Quantity, unchanged.
C5_ClaimsDoNotChangeListings ==
    [][InsertedClaims # {} \/ StatusChanged # {} => food_listings' = food_listings]_vars

\* a listing of quantity 2 with two claims, one of them Completed
C5_Witness ==
    \E fl \in food_listings : \E c, d \in claims :
        /\ fl.Quantity = 2
        /\ c.Food_ID = fl.Food_ID /\ d.Food_ID = fl.Food_ID
        /\ c.Claim_ID # d.Claim_ID
        /\ c.Status = "Completed"

\* C6: every provider can be deleted, also one that listings refer to; a step
\* that removes a provider removes that one row only and leaves the listings,
\* the claims and the receivers unchanged.
C6_DeleteProviderDoesNotCascade ==
    /\ [](\A p \in providers : ENABLED DeleteProvider(p.Provider_ID))
    /\ [][ProviderIds \ ProviderIds' # {} =>
            /\ providers' \subseteq providers
            /\ Cardinality(providers \ providers') = 1
            /\ food_listings' = food_listings
            /\ claims' = claims
            /\ receivers' = receivers]_vars

\* a listing with a claim on it whose provider was deleted
C6_Witness ==
    \E fl \in food_listings :
        /\ fl.Provider_ID \notin ProviderIds
        /\ \E c \in claims : c.Food_ID = fl.Food_ID

\* the listings that have at least one Completed claim
CompletedListings ==
    {fl \in food_listings :
        \E c \in claims : c.Food_ID = fl.Food_ID /\ c.Status = "Completed"}

\* C8: when the total listed quantity is positive, the waste-prevented
\* percentage is the quantity of the listings with a Completed claim, each
\* listing counted once, over the total quantity, times 100.
C8_WastePreventedCountsEachListingOnce ==
    TotalFood > 0 =>
        WastePrevented.num * TotalFood
            = SumQuantity(CompletedListings) * 100 * WastePrevented.den

\* C9: when the total listed quantity is 0 the waste-prevented percentage is 0,
\* and no division by zero is performed in any state.
C9_NoDivisionByZero ==
    /\ WastePrevented.den # 0
    /\ TotalFood = 0 => WastePrevented = Zero

\* no listing is left, and a Completed claim still is
C9_Witness ==
    /\ food_listings = {}
    /\ \E c \in claims : c.Status = "Completed"

\* C7: under every combination of the three filters the food-listing query
\* returns rows of the unfiltered result only, every row matches each filter
\* that is not "All", and the rows are in ascending order of expiry date.
C7_FilteredListingsAreSortedSubset ==
    \A cf \in LocationOptions, ff \in FoodTypeOptions, mf \in MealTypeOptions :
        \A res \in FoodListingsQuery(cf, ff, mf) :
            /\ \A i \in 1..Len(res) :
                  /\ \A all \in FoodListingsQuery("All", "All", "All") :
                        \E k \in 1..Len(all) : all[k] = res[i]
                  /\ cf # "All" => res[i].Location = cf
                  /\ ff # "All" => res[i].Food_Type = ff
                  /\ mf # "All" => res[i].Meal_Type = mf
            /\ \A i, j \in 1..Len(res) :
                  DayOf(res[i].Expiry_Date) < DayOf(res[j].Expiry_Date) => i < j

\* two listings of different cities, the one created later expiring first and
\* returned first
C7_Witness ==
    \E res \in FoodListingsQuery("All", "All", "All") :
        /\ Len(res) = 2
        /\ DayOf(res[1].Expiry_Date) < DayOf(res[2].Expiry_Date)
        /\ res[1].Food_ID > res[2].Food_ID
        /\ res[1].Location # res[2].Location
        /\ Len(CHOOSE r \in FoodListingsQuery(res[1].Location, "All", "All") : TRUE) = 1

\* C10: Expiring Soon is the number of listings whose expiry date is from
\* today through today + 3 days; a listing that expired before today is not
\* counted.
C10_ExpiringSoonCountsOnlyTheWindow ==
    ExpiringSoon =
        Cardinality({fl \in food_listings :
            /\ now <= DayOf(fl.Expiry_Date)
            /\ DayOf(fl.Expiry_Date) <= now + 3})

\* the food listings a step inserts
InsertedListings == {fl \in food_listings' : fl.Food_ID \notin FoodIds}

\* C11: a listing is created with the Provider_Type its provider has at that
\* moment; a step that changes the providers table leaves every listing as it
\* is, and no step changes the Provider_Type of a listing that stays.
C11_ProviderTypeIsASnapshot ==
    [][/\ \A fl \in InsertedListings :
            \E p \in providers : p.Provider_ID = fl.Provider_ID /\ p.Type = fl.Provider_Type
       /\ providers' # providers => food_listings' = food_listings
       /\ \A fl \in food_listings, g \in food_listings' :
            g.Food_ID = fl.Food_ID => g.Provider_Type = fl.Provider_Type]_vars

\* a listing whose Provider_Type is no longer its provider's Type
C11_Witness ==
    \E fl \in food_listings : \E p \in providers :
        p.Provider_ID = fl.Provider_ID /\ p.Type # fl.Provider_Type

\* C12: a Create of a provider, receiver or food listing with an empty
\* required field reports an error and leaves the four tables unchanged; with
\* every required field filled it reports success and the new row, with the
\* fields as entered, is in what Read returns afterwards.
C12_CreateValidatesRequiredFields ==
    [][/\ \A n, a, c, k \in TextInputs, t \in WideProviderTypeInputs :
            CreateProvider(n, t, a, c, k) =>
                IF n = "" \/ a = "" \/ c = "" \/ k = ""
                THEN message' = "error" /\ tables' = tables
                ELSE /\ message' = "success"
                     /\ \E i \in 1..Len(ReadProviders') :
                           ReadProviders'[i] =
                               [Provider_ID |-> NextRowId(ProviderIds), Name |-> n, Type |-> t,
                                Address |-> a, City |-> c, Contact |-> k]
       /\ \A n, c, k \in TextInputs, t \in ReceiverTypeInputs :
            CreateReceiver(n, t, c, k) =>
                IF n = "" \/ c = "" \/ k = ""
                THEN message' = "error" /\ tables' = tables
                ELSE /\ message' = "success"
                     /\ \E i \in 1..Len(ReadReceivers') :
                           ReadReceivers'[i] =
                               [Receiver_ID |-> NextRowId(ReceiverIds), Name |-> n, Type |-> t,
                                City |-> c, Contact |-> k]
       /\ \A n, l \in TextInputs, q \in QuantityInputs, e \in ExpiryInputs,
             p \in ProviderIds, ft \in FoodTypeInputs, mt \in MealTypeInputs :
            CreateFoodListing(n, q, e, p, l, ft, mt) =>
                IF n = "" \/ l = ""
                THEN message' = "error" /\ tables' = tables
                ELSE /\ message' = "success"
                     /\ \E i \in 1..Len(ReadFoodListings') :
                           LET row == ReadFoodListings'[i]
                           IN  /\ row.Food_ID = NextRowId(FoodIds)
                               /\ row.Food_Name = n /\ row.Quantity = q
                               /\ DayOf(row.Expiry_Date) = e /\ row.Provider_ID = p
                               /\ row.Location = l /\ row.Food_Type = ft
                               /\ row.Meal_Type = mt]_vars

\* each table has a row, and the last Create was refused
C12_Witness ==
    /\ message = "error"
    /\ providers # {} /\ receivers # {} /\ food_listings # {}

\* C13: an UPDATE or DELETE by a primary key that no row has leaves its table
\* as it is, and the status update issued with no claim selected (its key
\* matches no row) reports success and leaves the four tables unchanged.
C13_MissingKeyIsASilentNoOp ==
    /\ [](/\ \A id \in (1..MaxClaimId + 1) \ ClaimIds :
               /\ DeleteFromClaims(id) = claims
               /\ \A s \in StatusOptions : UpdateClaimStatus(s, id) = claims
          /\ \A id \in (1..MaxProviderId + 1) \ ProviderIds :
               /\ DeleteFromProviders(id) = providers
               /\ \A t \in WideProviderTypeInputs :
                     UpdateProviderRow(id, "x", t, "x", "x", "x") = providers
          /\ \A id \in (1..MaxReceiverId + 1) \ ReceiverIds :
               DeleteFromReceivers(id) = receivers
          /\ \A id \in (1..MaxFoodId + 1) \ FoodIds :
               DeleteFromFoodListings(id) = food_listings)
    /\ [][\A sf \in StatusFilterOptions, s \in StatusOptions :
            UpdateStatusNoSelection(sf, s) =>
                message' = "success" /\ tables' = tables]_vars

\* after a refused Create, the Claims page shows claims, none of them
\* Cancelled, so that the Cancelled filter leaves no claim to select
C13_Witness ==
    /\ ClaimsRows # {}
    /\ FilteredClaims("Cancelled") = {}
    /\ message = "error"
    /\ ENABLED UpdateStatusNoSelection("Cancelled", "Completed")

\* the food listings of a provider
ListingsOf(p) == {fl \in food_listings : fl.Provider_ID = p.Provider_ID}

\* C14: for every provider the report lists, Total_Quantity is the sum of
\* Quantity over the provider's listings, each counted once, Total_Listings
\* the number of its listings and Total_Claims the number of claims on them;
\* all three are 0 for a provider without listings.
C14_TopProvidersAggregates ==
    \A o \in TopProvidersOrder : \A i \in 1..Len(o) :
        LET row == TopProviderRow(o[i])
        IN  /\ row.Total_Quantity = <<SumQuantity(ListingsOf(o[i]))>>
            /\ row.Total_Listings = Cardinality(ListingsOf(o[i]))
            /\ row.Total_Claims =
                  Cardinality({c \in claims : \E fl \in ListingsOf(o[i]) : c.Food_ID = fl.Food_ID})

\* C14 for the providers that have a listing: the same statement, with the
\* provider without listings left out
C14_TopProvidersAggregatesOfListed ==
    \A o \in TopProvidersOrder : \A i \in 1..Len(o) :
        LET row == TopProviderRow(o[i])
        IN  ListingsOf(o[i]) # {} =>
                /\ row.Total_Quantity = <<SumQuantity(ListingsOf(o[i]))>>
                /\ row.Total_Listings = Cardinality(ListingsOf(o[i]))

\* C15: a food listing a step creates is referenced by no claim that was
\* stored before the step, so a new listing never inherits the claims of a
\* deleted listing.
C15_NewListingHasNoOldClaims ==
    [][\A fl \in InsertedListings : \A c \in claims : c.Food_ID # fl.Food_ID]_vars

\* the claims whose listing, provider or receiver is missing
Dangling == {c \in claims : ~Resolves(c)}

\* C16: a stored claim is in the unfiltered claims view exactly when its
\* listing, that listing's provider and its receiver exist; a claim missing
\* one of them is in the view under no filter, cannot be selected for a status
\* update, and keeps its status in every step that leaves it stored.
C16_DanglingClaimIsHiddenAndFrozen ==
    /\ [](/\ \A c \in claims : Listed(c.Claim_ID, "All") <=> Resolves(c)
          /\ \A c \in Dangling :
                /\ \A sf \in StatusFilterOptions : NotListed(c.Claim_ID, sf)
                /\ \A sf \in StatusFilterOptions, s \in StatusOptions :
                      ~ENABLED UpdateStatus(sf, c.Claim_ID, s))
    /\ [][\A c \in Dangling : \A d \in claims' :
              d.Claim_ID = c.Claim_ID => d.Status = c.Status]_vars

C16_Witness ==
    /\ \E c \in claims :
          /\ c.Status = "Completed"
          /\ c.Receiver_ID \in ReceiverIds
          /\ \E fl \in food_listings :
                fl.Food_ID = c.Food_ID /\ fl.Provider_ID \notin ProviderIds
    /\ \E c \in claims : Resolves(c)

====
